---- MODULE Spec2Model ----
(***************************************************************************)
(* Model of the point-declutter pipeline of lifeline (src/main.go, func    *)
(* main, lines 104-237): the Same-Time Spacer, the Density Rescaler and    *)
(* the Monotonicity Enforcer, one action per loop iteration.               *)
(*                                                                         *)
(* Numbers.  A Year of the program is a float64.  The model is exact:      *)
(* a year is held in thousandths (1990.1 is 1990100), so the program's     *)
(* 0.2, 0.1 and 3.0 are 200, 100 and 3000.  A scaled distance is held in   *)
(* quarter-thousandths, because the scale factor 1 + (avg-1)*1.5 with      *)
(* avg = (d1+d2)/2 is a multiple of 1/4.  A year written by the rescaler   *)
(* is the exact rational w + f/D with 0 <= f < D, where D is the total     *)
(* scaled distance (f = 0 when that total is not positive).                *)
(***************************************************************************)
EXTENDS Integers, Sequences, FiniteSets, TLC

VARIABLES
    pc,                       \* position in main
    i,                        \* the loop index (1-based)
    points,                   \* the sorted input (line 105)
    adjustedPoints,           \* working copy, lines 108-109, 237
    densities,                \* line 158
    densityScaledPoints,      \* lines 153-154
    minYear,                  \* line 172
    totalRange,               \* line 174
    scaledDistances,          \* line 177
    totalScaledDistance,      \* line 178
    cumulativeScaledDistance  \* line 194

vars == <<pc, i, points, adjustedPoints, densities, densityScaledPoints,
          minYear, totalRange, scaledDistances, totalScaledDistance,
          cumulativeScaledDistance>>

\* ---------------------------------------------------------------- bounds
MaxPoints == 4

\* ------------------------------------------------------ program constants
spacing == 200          \* 0.2
densityWindow == 3000   \* 3.0
MinStep == 100          \* 0.1

\* ----------------------------------------------------------------- inputs
Years == {0, 100, 200, 1000, 3000, 3300}

Attrs == {<<10, "A">>, <<20, "B">>}

Point(y, v, l) == [Year |-> y, Value |-> v, Label |-> l]

RawPoints == {Point(y, a[1], a[2]) : y \in Years, a \in Attrs}

IsSorted(s) == \A k \in 2..Len(s) : s[k-1].Year <= s[k].Year

SortedInputs ==
    UNION {{s \in [1..n -> RawPoints] : IsSorted(s)} : n \in 1..MaxPoints}

Scenario ==
    <<Point(1990000, 10, "A"), Point(1990000, 20, "B"), Point(1995000, 5, "C")>>

\* An input on which the spacer's fans overlap: 70 single points one
\* thousandth apart, 21 groups of 7 one hundredth apart, 70 single points.
BigYear(k) ==
    IF k <= 70 THEN 535 + (k - 1)
    ELSE IF k <= 217 THEN 4000 + ((k - 71) \div 7) * 10
    ELSE 7595 + (k - 218)

BigInput == [k \in 1..287 |-> Point(BigYear(k), 10, "A")]

\* ------------------------------------------------------------- arithmetic
Abs(x) == IF x < 0 THEN -x ELSE x

Frac(y) == [w |-> y, f |-> 0]

LessYear(a, b) == a.w < b.w \/ (a.w = b.w /\ a.f < b.f)

LeqYear(a, b) == a.w < b.w \/ (a.w = b.w /\ a.f <= b.f)

\* ------------------------------------------------------- Same-Time Spacer
\* lines 116-123: the events of the same year, the current one included
CountSameYear(orig, year) ==
    Cardinality({j \in 1..Len(orig) : orig[j].Year = year})

\* lines 127-136: the same-year events met before the scan reaches idx
EventIndex(orig, year, idx) ==
    IF orig[idx].Year = year
    THEN Cardinality({j \in 1..(idx - 1) : orig[j].Year = year})
    ELSE CountSameYear(orig, year)

NewYearOffByOne(currentYear, sameYearCount, eventIndex) ==
    currentYear - (sameYearCount * spacing) \div 2 + eventIndex * spacing

NewYear(currentYear, sameYearCount, eventIndex) ==
    currentYear - ((sameYearCount - 1) * spacing) \div 2 + eventIndex * spacing

SpacedYear(orig, currentYear, idx) ==
    LET sameYearCount == CountSameYear(orig, currentYear)
    IN  IF sameYearCount > 1
        THEN NewYear(currentYear, sameYearCount, EventIndex(orig, currentYear, idx))
        ELSE currentYear

\* ------------------------------------------------------- Density Rescaler
\* lines 160-168: the points within the window of point idx, itself included
Density(ps, idx) ==
    Cardinality({j \in 1..Len(ps) : Abs(ps[j].Year - ps[idx].Year) <= densityWindow})

ScaleFactor4Prev(dCur, dPrev) == 4 + (dPrev + dPrev - 2) * 3

\* four times  1.0 + (avgDensity - 1.0) * 1.5,  avgDensity = (dCur + dPrev) / 2
ScaleFactor4(dCur, dPrev) == 4 + (dCur + dPrev - 2) * 3

ScaledDistance(ps, dens, idx) ==
    (ps[idx].Year - ps[idx-1].Year) * ScaleFactor4(dens[idx], dens[idx-1])

NormalizedYear(cum) ==
    IF totalScaledDistance > 0
    THEN [w |-> minYear + (cum * totalRange) \div totalScaledDistance,
          f |-> (cum * totalRange) % totalScaledDistance]
    ELSE Frac(0)

\* --------------------------------------------------- Monotonicity Enforcer
NeedsCorrectionStrict(cur, prev) == LessYear(cur, prev)

NeedsCorrection(cur, prev) == LeqYear(cur, prev)

CorrectedFromSelf(cur, prev) == [cur EXCEPT !.w = @ + MinStep]

Corrected(cur, prev) == [prev EXCEPT !.w = @ + MinStep]

\* ---------------------------------------------------------------- actions
Zeros(n) == [k \in 1..n |-> 0]

InitWith(input) ==
    /\ pc = "copy"
    /\ i = 1
    /\ points = input
    /\ adjustedPoints = <<>>
    /\ densities = <<>>
    /\ densityScaledPoints = <<>>
    /\ minYear = 0
    /\ totalRange = 0
    /\ scaledDistances = <<>>
    /\ totalScaledDistance = 0
    /\ cumulativeScaledDistance = 0

Init == \E input \in SortedInputs \cup {Scenario} : InitWith(input)

InitBig == InitWith(BigInput)

\* lines 108-109
Copy ==
    /\ pc = "copy"
    /\ adjustedPoints' = points
    /\ pc' = "spacer"
    /\ i' = 1
    /\ UNCHANGED <<points, densities, densityScaledPoints, minYear, totalRange,
                   scaledDistances, totalScaledDistance, cumulativeScaledDistance>>

\* a variant that ranks against the working copy instead of the input
SpacerStepIncremental ==
    /\ pc = "spacer"
    /\ i <= Len(adjustedPoints)
    /\ adjustedPoints' = [adjustedPoints EXCEPT ![i].Year =
                             SpacedYear(adjustedPoints, adjustedPoints[i].Year, i)]
    /\ i' = i + 1
    /\ UNCHANGED <<pc, points, densities, densityScaledPoints, minYear, totalRange,
                   scaledDistances, totalScaledDistance, cumulativeScaledDistance>>

\* a variant in which the working copy aliases the input
SpacerStepAliased ==
    /\ pc = "spacer"
    /\ i <= Len(adjustedPoints)
    /\ adjustedPoints' = [adjustedPoints EXCEPT ![i].Year =
                             SpacedYear(points, adjustedPoints[i].Year, i)]
    /\ points' = [points EXCEPT ![i] = adjustedPoints'[i]]
    /\ i' = i + 1
    /\ UNCHANGED <<pc, densities, densityScaledPoints, minYear, totalRange,
                   scaledDistances, totalScaledDistance, cumulativeScaledDistance>>

\* lines 114-150, one iteration
SpacerStep ==
    /\ pc = "spacer"
    /\ i <= Len(adjustedPoints)
    /\ adjustedPoints' = [adjustedPoints EXCEPT ![i].Year =
                             SpacedYear(points, adjustedPoints[i].Year, i)]
    /\ i' = i + 1
    /\ UNCHANGED <<pc, points, densities, densityScaledPoints, minYear, totalRange,
                   scaledDistances, totalScaledDistance, cumulativeScaledDistance>>

\* lines 153-158
SpacerDone ==
    /\ pc = "spacer"
    /\ i > Len(adjustedPoints)
    /\ densityScaledPoints' =
          [k \in 1..Len(adjustedPoints) |->
              [adjustedPoints[k] EXCEPT !.Year = Frac(adjustedPoints[k].Year)]]
    /\ densities' = Zeros(Len(adjustedPoints))
    /\ pc' = "density"
    /\ i' = 1
    /\ UNCHANGED <<points, adjustedPoints, minYear, totalRange,
                   scaledDistances, totalScaledDistance, cumulativeScaledDistance>>

\* lines 160-168, one iteration
DensityStep ==
    /\ pc = "density"
    /\ i <= Len(adjustedPoints)
    /\ densities' = [densities EXCEPT ![i] = Density(adjustedPoints, i)]
    /\ i' = i + 1
    /\ UNCHANGED <<pc, points, adjustedPoints, densityScaledPoints, minYear, totalRange,
                   scaledDistances, totalScaledDistance, cumulativeScaledDistance>>

\* lines 171-178
DensityDone ==
    /\ pc = "density"
    /\ i > Len(adjustedPoints)
    /\ Len(densityScaledPoints) > 0
    /\ minYear' = adjustedPoints[1].Year
    /\ totalRange' = adjustedPoints[Len(adjustedPoints)].Year - adjustedPoints[1].Year
    /\ scaledDistances' = Zeros(Len(adjustedPoints))
    /\ totalScaledDistance' = 0
    /\ pc' = "scale"
    /\ i' = 2
    /\ UNCHANGED <<points, adjustedPoints, densities, densityScaledPoints,
                   cumulativeScaledDistance>>

\* lines 180-190, one iteration
ScaleStep ==
    /\ pc = "scale"
    /\ i <= Len(adjustedPoints)
    /\ scaledDistances' =
          [scaledDistances EXCEPT ![i] = ScaledDistance(adjustedPoints, densities, i)]
    /\ totalScaledDistance' = totalScaledDistance + scaledDistances'[i]
    /\ i' = i + 1
    /\ UNCHANGED <<pc, points, adjustedPoints, densities, densityScaledPoints,
                   minYear, totalRange, cumulativeScaledDistance>>

\* a variant whose next loop starts at the first point
ScaleDoneFromFirst ==
    /\ pc = "scale"
    /\ i > Len(adjustedPoints)
    /\ densityScaledPoints' = [densityScaledPoints EXCEPT ![1].Year = Frac(minYear)]
    /\ cumulativeScaledDistance' = 0
    /\ pc' = "normalize"
    /\ i' = 1
    /\ UNCHANGED <<points, adjustedPoints, densities, minYear, totalRange,
                   scaledDistances, totalScaledDistance>>

\* lines 193-194
ScaleDone ==
    /\ pc = "scale"
    /\ i > Len(adjustedPoints)
    /\ densityScaledPoints' = [densityScaledPoints EXCEPT ![1].Year = Frac(minYear)]
    /\ cumulativeScaledDistance' = 0
    /\ pc' = "normalize"
    /\ i' = 2
    /\ UNCHANGED <<points, adjustedPoints, densities, minYear, totalRange,
                   scaledDistances, totalScaledDistance>>

\* lines 196-206, one iteration
NormalizeStep ==
    /\ pc = "normalize"
    /\ i <= Len(adjustedPoints)
    /\ cumulativeScaledDistance' = cumulativeScaledDistance + scaledDistances[i]
    /\ densityScaledPoints' =
          [densityScaledPoints EXCEPT ![i].Year =
              IF totalScaledDistance > 0
              THEN NormalizedYear(cumulativeScaledDistance')
              ELSE Frac(adjustedPoints[i].Year)]
    /\ i' = i + 1
    /\ UNCHANGED <<pc, points, adjustedPoints, densities, minYear, totalRange,
                   scaledDistances, totalScaledDistance>>

\* line 212, loop entry
NormalizeDone ==
    /\ pc = "normalize"
    /\ i > Len(adjustedPoints)
    /\ pc' = "monotonic"
    /\ i' = 2
    /\ UNCHANGED <<points, adjustedPoints, densities, densityScaledPoints, minYear,
                   totalRange, scaledDistances, totalScaledDistance,
                   cumulativeScaledDistance>>

\* lines 212-217, one iteration
MonotonicStep ==
    /\ pc = "monotonic"
    /\ i <= Len(densityScaledPoints)
    /\ densityScaledPoints' =
          IF NeedsCorrection(densityScaledPoints[i].Year, densityScaledPoints[i-1].Year)
          THEN [densityScaledPoints EXCEPT ![i].Year =
                   Corrected(densityScaledPoints[i].Year, densityScaledPoints[i-1].Year)]
          ELSE densityScaledPoints
    /\ i' = i + 1
    /\ UNCHANGED <<pc, points, adjustedPoints, densities, minYear, totalRange,
                   scaledDistances, totalScaledDistance, cumulativeScaledDistance>>

\* lines 217-234, loop exit (the report that follows only prints)
MonotonicDone ==
    /\ pc = "monotonic"
    /\ i > Len(densityScaledPoints)
    /\ pc' = "assign"
    /\ UNCHANGED <<i, points, adjustedPoints, densities, densityScaledPoints, minYear,
                   totalRange, scaledDistances, totalScaledDistance,
                   cumulativeScaledDistance>>

\* line 237
Assign ==
    /\ pc = "assign"
    /\ adjustedPoints' = densityScaledPoints
    /\ pc' = "done"
    /\ UNCHANGED <<i, points, densities, densityScaledPoints, minYear,
                   totalRange, scaledDistances, totalScaledDistance,
                   cumulativeScaledDistance>>

Next ==
    \/ Copy
    \/ SpacerStep
    \/ SpacerDone
    \/ DensityStep
    \/ DensityDone
    \/ ScaleStep
    \/ ScaleDone
    \/ NormalizeStep
    \/ NormalizeDone
    \/ MonotonicStep
    \/ MonotonicDone
    \/ Assign

Spec == Init /\ [][Next]_vars

SpecBig == InitBig /\ [][Next]_vars

\* ------------------------------------------------------------- properties
PostSpacing == pc \in {"density", "scale", "normalize", "monotonic", "assign"}

Rescaled == pc = "monotonic" /\ i = 2

YearsOf(ps) == {ps[k].Year : k \in 1..Len(ps)}

MinAdjusted == CHOOSE m \in YearsOf(adjustedPoints) : \A y \in YearsOf(adjustedPoints) : m <= y

MaxAdjusted == CHOOSE m \in YearsOf(adjustedPoints) : \A y \in YearsOf(adjustedPoints) : m >= y

RECURSIVE SumScaled(_)
SumScaled(k) == IF k < 2 THEN 0 ELSE scaledDistances[k] + SumScaled(k - 1)

\* the year the rescaler gives point k, recomputed from the gaps
RescaledYear(k) ==
    IF k = 1 THEN [w |-> minYear, f |-> 0]
    ELSE IF totalScaledDistance > 0
         THEN [w |-> minYear + (SumScaled(k) * totalRange) \div totalScaledDistance,
               f |-> (SumScaled(k) * totalRange) % totalScaledDistance]
         ELSE [w |-> adjustedPoints[k].Year, f |-> 0]

PlusStep(y) == [w |-> y.w + 100, f |-> y.f]

SameShape(ps) ==
    /\ Len(ps) = Len(points)
    /\ \A k \in 1..Len(ps) :
          /\ DOMAIN ps[k] = {"Year", "Value", "Label"}
          /\ ps[k].Value = points[k].Value
          /\ ps[k].Label = points[k].Label

\* C1: the final output of the pipeline is strictly increasing in time.
C1_StrictlyIncreasing ==
    pc \in {"assign", "done"} =>
        /\ \A k \in 2..Len(densityScaledPoints) :
              LessYear(densityScaledPoints[k-1].Year, densityScaledPoints[k].Year)
        /\ pc = "done" => adjustedPoints = densityScaledPoints

C1_Witness ==
    /\ pc = "done"
    /\ Len(adjustedPoints) >= 3
    /\ \E k \in 2..Len(adjustedPoints) :
          adjustedPoints[k].Year = PlusStep(adjustedPoints[k-1].Year)

\* C2: every stage keeps the length, the values and the labels index-aligned
\* with the sorted input, changes only Year, and never mutates the input.
C2_Aligned ==
    /\ pc # "copy" => SameShape(adjustedPoints)
    /\ pc \notin {"copy", "spacer"} => SameShape(densityScaledPoints)

C2_Frame == []C2_Aligned /\ [][points' = points]_vars

C2_Witness ==
    /\ pc = "done"
    /\ Len(points) >= 2
    /\ \E k \in 1..Len(points) : adjustedPoints[k].Year # Frac(points[k].Year)
    /\ \E j, k \in 1..Len(points) : points[j].Label # points[k].Label

Group(k) == {j \in 1..Len(points) : points[j].Year = points[k].Year}

Rank(k) == Cardinality({j \in Group(k) : j < k})

RECURSIVE DeviationSum(_, _)
DeviationSum(k, j) ==
    IF j > Len(points) THEN 0
    ELSE (IF j \in Group(k) THEN adjustedPoints[j].Year - points[j].Year ELSE 0)
         + DeviationSum(k, j + 1)

\* C3: a point of rank k in a group of n > 1 equal times T gets
\* T - (n-1)*0.1 + k*0.2 (ranked on the original times); the deviations of a
\* group sum to 0, consecutive members are 0.2 apart, and a point whose time
\* is unique keeps it.
C3_SymmetricFan ==
    PostSpacing =>
        \A k \in 1..Len(points) :
            LET n == Cardinality(Group(k))
                T == points[k].Year
            IN  /\ n = 1 => adjustedPoints[k].Year = T
                /\ n > 1 => adjustedPoints[k].Year = T - (n - 1) * 100 + Rank(k) * 200
                /\ DeviationSum(k, 1) = 0
                /\ \A j \in Group(k) :
                      Rank(j) = Rank(k) + 1 =>
                          adjustedPoints[j].Year - adjustedPoints[k].Year = 200

C3_Witness ==
    /\ PostSpacing
    /\ \E k \in 1..Len(points) : Cardinality(Group(k)) = 3
    /\ \E k \in 1..Len(points) : Cardinality(Group(k)) = 1

\* C4: the first output time is the least post-spacing time, and the
\* rescaler's output has the least and greatest post-spacing times as its
\* least and greatest times, the last point sitting at the greatest.
C4_AnchorsPreserved ==
    /\ Rescaled =>
          /\ \A k \in 1..Len(points) :
                /\ LeqYear(Frac(MinAdjusted), densityScaledPoints[k].Year)
                /\ LeqYear(densityScaledPoints[k].Year, Frac(MaxAdjusted))
          /\ \E k \in 1..Len(points) : densityScaledPoints[k].Year = Frac(MinAdjusted)
          /\ densityScaledPoints[Len(points)].Year = Frac(MaxAdjusted)
    /\ pc = "assign" => densityScaledPoints[1].Year = Frac(MinAdjusted)

\* C5: a one-point input comes back unchanged, and no iteration of the
\* gap-scaling, renormalization or monotonicity loop runs.
C5_SinglePoint ==
    /\ [](Len(points) = 1 /\ pc = "done" =>
             adjustedPoints = <<[points[1] EXCEPT !.Year = Frac(@)]>>)
    /\ [][Len(points) = 1 => ~(ScaleStep \/ NormalizeStep \/ MonotonicStep)]_vars

C5_Witness == pc = "done" /\ Len(points) = 1 /\ Len(adjustedPoints) = 1

\* C6: for [(1990,10,A),(1990,20,B),(1995,5,C)] the spacer yields 1989.9,
\* 1990.1, 1995; the rescaler keeps the first at 1989.9 and the last at 1995
\* with the middle strictly between; the enforcer corrects nothing.
C6_State ==
    points = Scenario =>
        /\ PostSpacing =>
              /\ adjustedPoints[1].Year = 1989900
              /\ adjustedPoints[2].Year = 1990100
              /\ adjustedPoints[3].Year = 1995000
        /\ pc \in {"monotonic", "assign", "done"} =>
              /\ densityScaledPoints[1].Year = Frac(1989900)
              /\ densityScaledPoints[3].Year = Frac(1995000)
              /\ LessYear(densityScaledPoints[1].Year, densityScaledPoints[2].Year)
              /\ LessYear(densityScaledPoints[2].Year, densityScaledPoints[3].Year)

C6_Scenario ==
    /\ []C6_State
    /\ [][points = Scenario /\ MonotonicStep =>
             densityScaledPoints' = densityScaledPoints]_vars

C6_Witness ==
    /\ pc = "done"
    /\ points = Scenario
    /\ LessYear(Frac(1990100), adjustedPoints[2].Year)

InsertAt(ps, p, x) ==
    [k \in 1..(Len(ps) + 1) |->
        IF k < p THEN ps[k] ELSE IF k = p THEN x ELSE ps[k-1]]

Gap(k) == adjustedPoints[k].Year - adjustedPoints[k-1].Year

ExtraOffsets == {-3000, -1500, 0, 100, 3000}

\* C7: density[i] counts the points within 3.0 of point i (itself included);
\* a further point inside that window strictly raises density[i] and, the
\* gaps to its neighbours being the same and positive, strictly raises the
\* scaled gap gap * (1 + (avg - 1) * 1.5) on both sides of point i.
C7_DensitySensitivity ==
    (pc = "normalize" /\ i = 2) =>
        /\ \A k \in 1..Len(points) :
              densities[k] =
                 Cardinality({j \in 1..Len(points) :
                     adjustedPoints[j].Year - adjustedPoints[k].Year \in -3000..3000})
        /\ \A k \in 2..Len(points) :
              scaledDistances[k] = Gap(k) * (3 * (densities[k] + densities[k-1]) - 2)
        /\ \A k \in 1..Len(points) : \A d \in ExtraOffsets :
           \A p \in (1..(Len(points) + 1)) \ {k, k + 1} :
              LET ext == InsertAt(adjustedPoints, p,
                                  Point(adjustedPoints[k].Year + d, 10, "A"))
                  k2 == IF p < k THEN k + 1 ELSE k
                  extDens == [j \in 1..Len(ext) |-> Density(ext, j)]
              IN  /\ extDens[k2] > densities[k]
                  /\ (k >= 2 /\ Gap(k) > 0) =>
                        ScaledDistance(ext, extDens, k2) > scaledDistances[k]
                  /\ (k < Len(points) /\ Gap(k + 1) > 0) =>
                        ScaledDistance(ext, extDens, k2 + 1) > scaledDistances[k+1]

C7_Witness ==
    /\ pc = "normalize"
    /\ i = 2
    /\ \E k \in 2..(Len(points) - 1) :
          /\ Gap(k) > 0
          /\ Gap(k + 1) > 0
          /\ densities[k] > densities[k-1]
          /\ densities[k] < Len(points)

AllCoincide == \A j, k \in 1..Len(adjustedPoints) :
                  adjustedPoints[j].Year = adjustedPoints[k].Year

\* C8: unless the input is a single point or all post-spacing times
\* coincide, the total scaled distance is positive, so the fallback branch
\* of the renormalization is not taken.
C8_TotalPositive ==
    (pc = "normalize" /\ Len(adjustedPoints) > 1 /\ ~AllCoincide) =>
        totalScaledDistance > 0

\* C9: the enforcer never changes the first time; it changes time[i] only
\* when it is <= the corrected time[i-1], to exactly time[i-1] + 0.1; a
\* strictly increasing rescaled sequence is left as it is, and the last time
\* differs from the rescaler's only if a correction fired at the last index.
C9_State ==
    pc = "assign" =>
        LET n == Len(densityScaledPoints)
            out(k) == densityScaledPoints[k].Year
        IN  /\ out(1) = RescaledYear(1)
            /\ \A k \in 2..n :
                  out(k) = IF LeqYear(RescaledYear(k), out(k-1))
                           THEN PlusStep(out(k-1))
                           ELSE RescaledYear(k)
            /\ (\A k \in 2..n : LessYear(RescaledYear(k-1), RescaledYear(k)))
                  => \A k \in 1..n : out(k) = RescaledYear(k)
            /\ out(n) # RescaledYear(n) =>
                  n >= 2 /\ LeqYear(RescaledYear(n), out(n-1))

C9_EnforcerFrame ==
    /\ []C9_State
    /\ [][MonotonicStep =>
             /\ i' = i + 1
             /\ \A k \in 1..Len(densityScaledPoints) :
                   (k = 1 \/ k # i) => densityScaledPoints'[k] = densityScaledPoints[k]]_vars

C9_Witness ==
    /\ pc = "assign"
    /\ Len(points) >= 3
    /\ densityScaledPoints[Len(points)].Year # RescaledYear(Len(points))
    /\ densityScaledPoints[2].Year = RescaledYear(2)

\* C10: the post-spacing times are non-decreasing in index, so every actual
\* gap is >= 0 and the first and last points hold the least and greatest
\* post-spacing times.
C10_OrderPreserved ==
    PostSpacing =>
        /\ \A k \in 2..Len(adjustedPoints) : Gap(k) >= 0
        /\ adjustedPoints[1].Year = MinAdjusted
        /\ adjustedPoints[Len(adjustedPoints)].Year = MaxAdjusted

====
